---- MODULE Spec2Model ----
(***************************************************************************)
(* Model of src/index.ts (bun-pkg-builder): the Builder that sequences     *)
(* esm / cjs / iife / .d.ts emission, cleans the output root, and rebuilds *)
(* on file-system change notifications.                                    *)
(*                                                                         *)
(* Strings are sequences of symbols.  The symbol "/" is the path           *)
(* separator (node:path sep on posix), "." is the dot character; every     *)
(* other symbol is an opaque run of name characters, so <<"dist", "x">>    *)
(* is a name that has <<"dist">> as a proper string prefix.                *)
(***************************************************************************)
EXTENDS Integers, Sequences, FiniteSets, TLC

\* ------------------------------------------------------------------------
\* Bounds of the model
\* ------------------------------------------------------------------------
MaxChanges == 3
MaxPaths == 3

\* ------------------------------------------------------------------------
\* String and node:path primitives
\* ------------------------------------------------------------------------
Sep == "/"
Dot == "."
Undefined == <<"undefined">>

RECURSIVE SplitFrom(_, _, _)
\* s.split(sep): scan from position i, cur is the segment read so far
SplitFrom(s, i, cur) ==
    IF i > Len(s) THEN <<cur>>
    ELSE IF s[i] = Sep THEN <<cur>> \o SplitFrom(s, i + 1, <<>>)
    ELSE SplitFrom(s, i + 1, Append(cur, s[i]))

Split(s) == SplitFrom(s, 1, <<>>)

\* new Set(array): duplicates dropped, first-insertion order kept
RECURSIVE ToSet(_)
ToSet(xs) ==
    IF xs = <<>> THEN <<>>
    ELSE LET init == ToSet(SubSeq(xs, 1, Len(xs) - 1))
             last == xs[Len(xs)]
         IN  IF \E k \in 1..Len(init) : init[k] = last THEN init ELSE Append(init, last)

SetHas(set, x) == \E k \in 1..Len(set) : set[k] = x

\* the elements of `from`, in its order, that `other` has
Keep(from, other) == SelectSeq(from, LAMBDA x : SetHas(other, x))

\* Set.prototype.intersection: iterates the receiver when it is not the larger
\* set, otherwise iterates the argument; the result keeps the iterated order
Intersection(acc, cur) ==
    IF Len(acc) <= Len(cur) THEN Keep(acc, cur) ELSE Keep(cur, acc)

RECURSIVE Reduce(_)
\* array.reduce((acc, cur) => acc.intersection(cur)) without initial value
Reduce(sets) ==
    IF Len(sets) = 1 THEN sets[1]
    ELSE Intersection(Reduce(SubSeq(sets, 1, Len(sets) - 1)), sets[Len(sets)])

RECURSIVE JoinWith(_)
\* array.join("/")
JoinWith(parts) ==
    IF parts = <<>> THEN <<>>
    ELSE IF Len(parts) = 1 THEN parts[1]
    ELSE parts[1] \o <<Sep>> \o JoinWith(Tail(parts))

IsAbsolute(p) == Len(p) > 0 /\ p[1] = Sep

DotDot == <<Dot, Dot>>

RECURSIVE NormalizeSegs(_, _, _)
\* normalizeString of node:path: drops empty and "." segments, resolves ".."
NormalizeSegs(segs, out, allowAboveRoot) ==
    IF segs = <<>> THEN out
    ELSE LET s == Head(segs)
             rest == Tail(segs)
         IN  IF s = <<>> \/ s = <<Dot>> THEN NormalizeSegs(rest, out, allowAboveRoot)
             ELSE IF s = DotDot
                  THEN IF out # <<>> /\ out[Len(out)] # DotDot
                       THEN NormalizeSegs(rest, SubSeq(out, 1, Len(out) - 1), allowAboveRoot)
                       ELSE IF allowAboveRoot
                            THEN NormalizeSegs(rest, Append(out, s), allowAboveRoot)
                            ELSE NormalizeSegs(rest, out, allowAboveRoot)
                  ELSE NormalizeSegs(rest, Append(out, s), allowAboveRoot)

\* path.normalize (posix)
Normalize(p) ==
    IF Len(p) = 0 THEN <<Dot>>
    ELSE LET abs == IsAbsolute(p)
             trailing == p[Len(p)] = Sep
             body == JoinWith(NormalizeSegs(Split(p), <<>>, ~abs))
         IN  IF Len(body) = 0
             THEN IF abs THEN <<Sep>> ELSE IF trailing THEN <<Dot, Sep>> ELSE <<Dot>>
             ELSE (IF abs THEN <<Sep>> ELSE <<>>) \o body \o (IF trailing THEN <<Sep>> ELSE <<>>)

\* path.join(...args): zero-length arguments are ignored
Join(args) ==
    LET used == SelectSeq(args, LAMBDA a : Len(a) > 0)
    IN  IF used = <<>> THEN <<Dot>> ELSE Normalize(JoinWith(used))

\* path.dirname (posix)
Dirname(p) ==
    IF Len(p) = 0 THEN <<Dot>>
    ELSE LET cuts == {i \in 2..Len(p) : p[i] = Sep /\ \E j \in (i + 1)..Len(p) : p[j] # Sep}
         IN  IF cuts = {} THEN (IF IsAbsolute(p) THEN <<Sep>> ELSE <<Dot>>)
             ELSE LET end == CHOOSE i \in cuts : \A j \in cuts : j <= i
                  IN  IF IsAbsolute(p) /\ end = 2 THEN <<Sep, Sep>> ELSE SubSeq(p, 1, end - 1)

\* String.prototype.startsWith
StartsWith(s, prefix) ==
    Len(prefix) <= Len(s) /\ SubSeq(s, 1, Len(prefix)) = prefix

Map(xs, Op(_)) == [k \in 1..Len(xs) |-> Op(xs[k])]

\* basepath of src/index.ts
basepath(paths) ==
    Join(Reduce(Map(paths, LAMBDA path : ToSet(Split(path)))))

\* ------------------------------------------------------------------------
\* Inputs
\* ------------------------------------------------------------------------
Targets == {"bun", "node", "browser"}
Levels == {"error", "warning"}
Emissions == {"esm", "cjs", "iife", "dts"}
Bundles == {"esm", "cjs", "iife"}
DtsOutcomes == {"ok", "diagError", "emitSkipped", "throws"}

\* the keys buildCommonBundle sets itself in the object given to Bun.build
CoreKeys ==
    {"target", "external", "entrypoints", "format", "outdir", "sourcemap", "plugins", "throw"}

\* buildConfig objects: none, one with a key the Builder does not manage, and
\* one that also names every key the Builder manages
NoOverlay == [key \in {} |-> TRUE]
MinifyOverlay == [minify |-> TRUE]
FullOverlay ==
    [target |-> "overlay", external |-> <<"overlay">>, entrypoints |-> <<<<"overlay.ts">>>>,
     format |-> "overlay", outdir |-> <<"overlay">>, sourcemap |-> "inline",
     plugins |-> <<"overlay">>, throw |-> TRUE, minify |-> TRUE]

\* the config objects given to the constructor: the default, the README's
\* { watch: false, clean: false }, and two verbose ones with a buildConfig
BuilderOptions ==
    <<[watch |-> TRUE, clean |-> TRUE, verbose |-> FALSE, buildConfig |-> NoOverlay],
      [watch |-> FALSE, clean |-> FALSE, verbose |-> FALSE, buildConfig |-> NoOverlay],
      [watch |-> TRUE, clean |-> FALSE, verbose |-> TRUE, buildConfig |-> MinifyOverlay],
      [watch |-> FALSE, clean |-> TRUE, verbose |-> TRUE, buildConfig |-> FullOverlay]>>

\* the arguments of use(...plugins)
PluginLists == {<<>>, <<"plugin">>}

\* process.cwd()
Cwds == {<<Sep>>, <<Sep, "p">>}

SrcEntry == <<Dot, Sep, "src", Sep, "index.ts">>
RootEntry == <<Dot, Sep, "index.ts">>
MainOut == <<Dot, Sep, "dist", Sep, "cjs", Sep, "index.js">>
ModuleOut == <<Dot, Sep, "dist", Sep, "esm", Sep, "index.js">>
TypesOut == <<Dot, Sep, "dist", Sep, "types", Sep, "index.d.ts">>
CdnOut == <<Dot, Sep, "dist", Sep, "cdn", Sep, "index.js">>
StaleOut == <<Dot, Sep, "dist", Sep, "old.js">>

Manifest(entry, cdn, external) ==
    [entry |-> entry, main |-> MainOut, module |-> ModuleOut, types |-> TypesOut, cdn |-> cdn,
     external |-> external]

\* a manifest whose three output directories sit directly in the project root
FlatManifest ==
    [entry |-> RootEntry,
     main |-> <<Dot, Sep, "cjs", Sep, "index.js">>,
     module |-> <<Dot, Sep, "esm", Sep, "index.js">>,
     types |-> <<Dot, Sep, "types", Sep, "index.d.ts">>,
     cdn |-> Undefined, external |-> Undefined]

Manifests ==
    {Manifest(SrcEntry, Undefined, Undefined), Manifest(RootEntry, CdnOut, <<"react">>),
     FlatManifest}

NoManifest == Manifest(Undefined, Undefined, Undefined)

\* change.filename values, relative to the watched directory: a source file, a
\* source file whose name begins with the characters "dist", an emitted bundle
Filenames == {<<"index.ts">>, <<"dist", "x.ts">>, <<"dist", Sep, "cjs", Sep, "index.js">>}

\* result.logs of Bun.build, as the levels of its messages: a clean build, a
\* build with a warning, a failed build, a failed build that warned first
BuildLogs == {<<>>, <<"warning">>, <<"error">>, <<"warning", "error">>}

\* result.success of Bun.build with throw: false: the build failed exactly
\* when a message of error level was logged
Success(logs) == \A k \in 1..Len(logs) : logs[k] # "error"

\* what the subscription stream can throw into the for-await loop: the
\* AbortError of an aborted signal, or an error of the file system
AbortError == [isError |-> TRUE, name |-> "AbortError"]
Faults == {AbortError, [isError |-> TRUE, name |-> "ENOENT"]}
NoFault == [isError |-> FALSE, name |-> "none"]

\* the async call chains: the build() of from(), the loop of watchFiles(), and
\* the build() of a second from() call on the same Builder
Threads == {"main", "watch", "main2"}

VARIABLES
    alive,      \* the process has not exited
    aborted,    \* abortController.signal.aborted
    exitCode,   \* status given to process.exit, 0 while none
    target, watch, clean, verbose,   \* Builder config fields
    buildConfig, plugins,            \* Builder config fields
    external,   \* Builder.external
    passed,     \* per chain: the object its latest Bun.build call was given
    cwd,
    manifest,   \* the argument of from()
    manifest2,  \* the argument of a second from() call
    pc,         \* where each async call chain is suspended
    trace,      \* per chain: the emission events of its current build cycle
    locals,     \* per chain: the constants of its current build() call
    watcher,    \* the constants of the watchFiles() call
    fs,         \* the files on disk
    queue,      \* change notifications the watcher has not consumed yet
    observed,   \* whether late arrivals are recorded (an observer, not program state)
    late,       \* when observed: the notifications consumed so far that had arrived
                \* while a watcher rebuild was in flight, each with the loop's decision
    errors,     \* number of log.error calls
    reports,    \* the reportOutput calls made so far, each with what it printed
    watchEnd,   \* how the watchFiles() call ended: the fault caught, and whether rethrown
    changes,    \* number of change notifications delivered
    paths, shuffled,    \* a list of paths and a permutation of it
    applied, res, res2  \* whether basepath was applied, and its two results

vars == <<alive, aborted, exitCode, target, watch, clean, verbose, buildConfig, plugins,
          external, passed, cwd, manifest, manifest2,
          pc, trace, locals, watcher, fs, queue, observed, late, errors, reports, watchEnd,
          changes, paths, shuffled, applied, res, res2>>

options == <<watch, clean, verbose, buildConfig>>
config == <<target, options, plugins, external, cwd, manifest, manifest2, observed>>
process == <<alive, aborted, exitCode>>
chains == <<pc, trace, locals, watcher>>
console == <<errors, reports>>
pure == <<paths, shuffled, applied, res, res2>>

\* ------------------------------------------------------------------------
\* File system
\* ------------------------------------------------------------------------
\* how node:fs resolves a path argument: relative paths against process.cwd()
Resolve(p) == IF IsAbsolute(p) THEN Normalize(p) ELSE Join(<<cwd, p>>)

\* the directory chain of an absolute path
Chain(p) == NormalizeSegs(Split(p), <<>>, FALSE)

IsPrefix(a, b) == Len(a) <= Len(b) /\ SubSeq(b, 1, Len(a)) = a

\* a file is [dir, name, stale]: the directory it is in, its name, and whether
\* it was there before the Builder was constructed
File(dir, name, stale) == [dir |-> dir, name |-> name, stale |-> stale]

\* file `f` is `p` or lies below the directory `p`
Under(f, p) == IsPrefix(Chain(p), Append(Chain(f.dir), f.name))

\* exists(path)
Exists(files, p) == \E f \in files : Under(f, Resolve(p))

\* rm(path, { recursive: true, force: true })
Rm(files, p) == {f \in files : ~Under(f, Resolve(p))}

\* an emitter writing `name` into outDir
WriteFile(files, outDir, name) ==
    {f \in files : ~(f.dir = outDir /\ f.name = name)} \cup {File(outDir, name, FALSE)}

\* ------------------------------------------------------------------------
\* Builder
\* ------------------------------------------------------------------------
\* the constants build() computes before its first await, lines 258-265
BuildLocals(root, m) ==
    LET cjs == Dirname(Join(<<root, m.main>>))
        esm == Dirname(Join(<<root, m.module>>))
        types == Dirname(Join(<<root, m.types>>))
    IN  [entry |-> Join(<<root, m.entry>>), cjs |-> cjs, esm |-> esm, types |-> types,
         base |-> basepath(<<cjs, esm, types>>)]

NoLocals == [entry |-> <<>>, cjs |-> <<>>, esm |-> <<>>, types |-> <<>>, base |-> <<>>]

\* the outDir argument of each emission, lines 280-289
OutDir(step, loc, root, m) ==
    CASE step = "esm" -> loc.esm
      [] step = "cjs" -> loc.cjs
      [] step = "iife" -> Dirname(Join(<<root, m.cdn>>))
      [] step = "dts" -> loc.types

\* the constants watchFiles() computes, lines 228-229
WatchLocals(m) ==
    [base |-> Dirname(m.entry), output |-> basepath(<<m.main, m.module, m.types>>)]

NoWatch == [base |-> <<>>, output |-> <<>>]

\* manifest.external ?? []
Externals(m) == IF m.external = Undefined THEN <<>> ELSE m.external

\* { ...a, ...b }: the keys of both, b's value where both have the key
Spread(a, b) == [key \in DOMAIN a \cup DOMAIN b |-> IF key \in DOMAIN b THEN b[key] ELSE a[key]]

\* the object buildCommonBundle gives to Bun.build, lines 187-197
BundlerOptionsOverlayLast(overlay, tgt, ext, entry, format, outDir, plugs) ==
    Spread([target |-> tgt, external |-> ext, entrypoints |-> <<entry>>, format |-> format,
            outdir |-> outDir, sourcemap |-> "external", plugins |-> plugs, throw |-> FALSE],
           overlay)
BundlerOptions(overlay, tgt, ext, entry, format, outDir, plugs) ==
    Spread(overlay,
           [target |-> tgt, external |-> ext, entrypoints |-> <<entry>>, format |-> format,
            outdir |-> outDir, sourcemap |-> "external", plugins |-> plugs, throw |-> FALSE])

\* a string used as a condition
Truthy(s) == s # Undefined /\ Len(s) > 0

\* the condition of line 284
NeedsIifeCdnOnly(m, tgt) == Truthy(m.cdn)
NeedsIife(m, tgt) == Truthy(m.cdn) /\ tgt = "browser"

\* the order of the awaited calls of build(), lines 280-289
NextStepDtsFirst(step, m, tgt) ==
    CASE step = "esm" -> "cjs"
      [] step = "cjs" -> "dts"
      [] step = "dts" -> IF NeedsIife(m, tgt) THEN "iife" ELSE "end"
      [] step = "iife" -> "end"
NextStep(step, m, tgt) ==
    CASE step = "esm" -> "cjs"
      [] step = "cjs" -> IF NeedsIife(m, tgt) THEN "iife" ELSE "dts"
      [] step = "iife" -> "dts"
      [] step = "dts" -> "end"

\* what a reportOutput call hands to the console: the message (log.error),
\* the `log` object of line 15 (console.log(log), line 181), or nothing
Shown(level, verb) ==
    IF level = "error" THEN "message" ELSE IF verb THEN "log" ELSE "nothing"

\* reportOutput: what one message makes it do
ReportOutputNeverFatal(level, verb) ==
    [logError |-> level = "error", terminate |-> FALSE, print |-> verb /\ level # "error",
     shown |-> Shown(level, verb)]
ReportOutput(level, verb) ==
    [logError |-> level = "error", terminate |-> level = "error",
     print |-> verb /\ level # "error", shown |-> Shown(level, verb)]

\* the record kept of one reportOutput call
Report(level, r) == [level |-> level, shown |-> r.shown, terminate |-> r.terminate]

RECURSIVE ReportLogs(_, _)
\* the loop of lines 204-206; it ends where terminate() exits the process
ReportLogs(logs, verb) ==
    IF logs = <<>> THEN [logErrors |-> 0, terminate |-> FALSE, calls |-> {}]
    ELSE LET r == ReportOutput(Head(logs), verb)
             call == Report(Head(logs), r)
         IN  IF r.terminate THEN [logErrors |-> 1, terminate |-> TRUE, calls |-> {call}]
             ELSE LET rest == ReportLogs(Tail(logs), verb)
                  IN  [logErrors |-> rest.logErrors + (IF r.logError THEN 1 ELSE 0),
                       terminate |-> rest.terminate, calls |-> {call} \cup rest.calls]

\* the value writeDtsBundle rejects with, or "none" when it resolves
Rejection(outcome) ==
    CASE outcome = "ok" -> "none"
      [] outcome \in {"diagError", "emitSkipped"} -> "string"
      [] outcome = "throws" -> "Error"

\* the catch clause of buildDts: e instanceof Error
Caught(rejection) == rejection = "Error"

Event(step, ev) == [step |-> step, ev |-> ev]

\* where a chain continues once its build() call has returned
Returned(t) == IF t = "watch" THEN "waiting" ELSE "done"

EnterPc(t, step) == IF step = "end" THEN Returned(t) ELSE step
EnterTrace(tr, step) == IF step \in Emissions THEN Append(tr, Event(step, "start")) ELSE tr

\* the Bun.build call made on entering a bundle step; the Builder's fields are
\* read at that moment, `ext` being this.external
EnterPassed(t, step, loc, m, ext) ==
    IF step \in Bundles
    THEN [passed EXCEPT ![t] = BundlerOptions(buildConfig, target, ext, loc.entry, step,
                                              OutDir(step, loc, cwd, m), plugins)]
    ELSE passed

\* the manifest a chain's build() call was given
ManifestOf(t) == IF t = "main2" THEN manifest2 ELSE manifest

\* the first suspension of build(): the exists() call, or the first emission
FirstStep == IF clean THEN "exists" ELSE "esm"

InFlight(t) == pc[t] \in {"exists", "rm"} \cup Emissions

\* change.filename?.startsWith(output), line 238
Ignored(filename, output) == filename # Undefined /\ StartsWith(filename, output)

\* the catch clause of watchFiles, lines 248-254: whether it returns
SwallowedAlways(fault) == TRUE
Swallowed(fault) == fault.isError /\ fault.name = "AbortError"

\* terminate(): abort the controller, then process.exit(1).  The exit ends
\* every chain and discards the subscription with its pending notifications;
\* of the traces only that of the chain that called terminate() is kept
TerminateWithoutExit(caller, callerTrace) ==
    /\ aborted' = TRUE
    /\ exitCode' = 1
    /\ alive' = alive
    /\ pc' = [t \in Threads |-> IF t = caller THEN "exited" ELSE pc[t]]
    /\ trace' = [trace EXCEPT ![caller] = callerTrace]
    /\ UNCHANGED <<locals, watcher, queue, late, changes>>
Terminate(caller, callerTrace) ==
    /\ aborted' = TRUE
    /\ exitCode' = 1
    /\ alive' = FALSE
    /\ pc' = [t \in Threads |-> "exited"]
    /\ trace' = [t \in Threads |-> IF t = caller THEN callerTrace ELSE <<>>]
    /\ locals' = [t \in Threads |-> NoLocals]
    /\ watcher' = NoWatch
    /\ queue' = <<>>
    /\ late' = <<>>
    /\ changes' = 0

Start(observe) ==
    /\ observed = observe
    /\ alive = TRUE
    /\ aborted = FALSE
    /\ exitCode = 0
    /\ target = "bun"
    /\ \E k \in 1..Len(BuilderOptions) :
          /\ watch = BuilderOptions[k].watch
          /\ clean = BuilderOptions[k].clean
          /\ verbose = BuilderOptions[k].verbose
          /\ buildConfig = BuilderOptions[k].buildConfig
    /\ plugins = <<>>
    /\ external = <<>>
    /\ passed = [t \in Threads |-> NoOverlay]
    /\ cwd \in Cwds
    /\ manifest = NoManifest
    /\ manifest2 = NoManifest
    /\ pc = [t \in Threads |-> IF t = "main" THEN "config" ELSE "off"]
    /\ trace = [t \in Threads |-> <<>>]
    /\ locals = [t \in Threads |-> NoLocals]
    /\ watcher = NoWatch
    /\ fs = {File(Dirname(Join(<<cwd, StaleOut>>)), <<"old.js">>, TRUE)}
    /\ queue = <<>>
    /\ late = <<>>
    /\ errors = 0
    /\ reports = {}
    /\ watchEnd = [fault |-> NoFault, raised |-> FALSE]
    /\ changes = 0
    /\ paths = <<>>
    /\ shuffled = <<>>
    /\ applied = FALSE
    /\ res = <<>>
    /\ res2 = <<>>

\* for(target)
For(tgt) ==
    /\ alive
    /\ pc["main"] = "config"
    /\ target' = tgt
    /\ UNCHANGED <<process, options, plugins, external, passed, watchEnd, cwd, manifest, manifest2,
                   observed, chains,
                   fs, queue, late, console, changes, pure>>

\* use(...plugins)
Use(list) ==
    /\ alive
    /\ pc["main"] = "config"
    /\ plugins' = list
    /\ UNCHANGED <<process, target, options, external, passed, watchEnd, cwd, manifest, manifest2,
                   observed, chains,
                   fs, queue, late, console, changes, pure>>

\* from(manifest): subscribes the watcher without awaiting it, then runs
\* build() up to its first suspension
From(m) ==
    /\ alive
    /\ pc["main"] = "config"
    /\ manifest' = m
    /\ external' = Externals(m)
    /\ pc' = [t \in Threads |->
                IF t = "main" THEN FirstStep ELSE IF watch THEN "waiting" ELSE "off"]
    /\ trace' = [trace EXCEPT !["main"] = EnterTrace(<<>>, FirstStep)]
    /\ locals' = [locals EXCEPT !["main"] = BuildLocals(cwd, m)]
    /\ passed' = EnterPassed("main", FirstStep, BuildLocals(cwd, m), m, Externals(m))
    /\ watcher' = IF watch THEN WatchLocals(m) ELSE NoWatch
    /\ UNCHANGED <<process, target, options, plugins, watchEnd, cwd, manifest2, observed, fs, queue, late,
                   console, changes, pure>>

\* a second from(manifest) call on the same Builder, made while the first
\* call's cycle is in flight or after it.  The Builder of this call has watch
\* off, so the call subscribes no watcher
FromAgain(m) ==
    /\ alive
    /\ ~watch
    /\ pc["main"] \notin {"config", "exited"}
    /\ pc["main2"] = "off"
    /\ manifest2' = m
    /\ external' = Externals(m)
    /\ pc' = [pc EXCEPT !["main2"] = FirstStep]
    /\ trace' = [trace EXCEPT !["main2"] = EnterTrace(<<>>, FirstStep)]
    /\ locals' = [locals EXCEPT !["main2"] = BuildLocals(cwd, m)]
    /\ passed' = EnterPassed("main2", FirstStep, BuildLocals(cwd, m), m, Externals(m))
    /\ UNCHANGED <<process, target, options, plugins, watchEnd, cwd, manifest, observed, watcher,
                   fs, queue, late, console, changes, pure>>

\* await exists(base) settles, line 271
ExistsSettle(t) ==
    /\ alive
    /\ pc[t] = "exists"
    /\ LET next == IF Exists(fs, locals[t].base) THEN "rm" ELSE "esm"
       IN  /\ pc' = [pc EXCEPT ![t] = next]
           /\ trace' = [trace EXCEPT ![t] = EnterTrace(@, next)]
           /\ passed' = EnterPassed(t, next, locals[t], ManifestOf(t), external)
    /\ UNCHANGED <<locals, watcher, process, config, watchEnd, fs, queue, late, console, changes, pure>>

\* await rm(base) settles, line 272
RmSettle(t) ==
    /\ alive
    /\ pc[t] = "rm"
    /\ fs' = Rm(fs, locals[t].base)
    /\ pc' = [pc EXCEPT ![t] = "esm"]
    /\ trace' = [trace EXCEPT ![t] = EnterTrace(@, "esm")]
    /\ passed' = EnterPassed(t, "esm", locals[t], ManifestOf(t), external)
    /\ UNCHANGED <<locals, watcher, process, config, watchEnd, queue, late, console, changes, pure>>

\* await Bun.build(...) settles in buildCommonBundle, then the caller goes on
BundleSettle(t, logs) ==
    /\ alive
    /\ pc[t] \in {"esm", "cjs", "iife"}
    /\ LET step == pc[t]
           next == NextStep(step, ManifestOf(t), target)
           report == ReportLogs(logs, verbose)
           settled == Append(trace[t], Event(step, IF Success(logs) THEN "ok" ELSE "error"))
       IN  IF Success(logs)
           THEN /\ fs' = WriteFile(fs, OutDir(step, locals[t], cwd, ManifestOf(t)), <<"index.js">>)
                /\ pc' = [pc EXCEPT ![t] = EnterPc(t, next)]
                /\ trace' = [trace EXCEPT ![t] = EnterTrace(settled, next)]
                /\ passed' = EnterPassed(t, next, locals[t], ManifestOf(t), external)
                /\ UNCHANGED <<process, console, queue, late, changes, locals, watcher>>
           ELSE /\ errors' = errors + report.logErrors
                /\ reports' = reports \cup report.calls
                /\ fs' = fs
                /\ IF report.terminate
                   THEN Terminate(t, settled) /\ UNCHANGED passed
                   ELSE /\ pc' = [pc EXCEPT ![t] = EnterPc(t, next)]
                        /\ trace' = [trace EXCEPT ![t] = EnterTrace(settled, next)]
                        /\ passed' = EnterPassed(t, next, locals[t], ManifestOf(t), external)
                        /\ UNCHANGED <<process, queue, late, changes, locals, watcher>>
    /\ UNCHANGED <<config, watchEnd, pure>>

\* await writeDtsBundle(...) settles in buildDts, then the caller goes on
DtsSettle(t, outcome) ==
    /\ alive
    /\ pc[t] = "dts"
    /\ LET next == NextStep("dts", ManifestOf(t), target)
           rejection == Rejection(outcome)
           settled == Append(trace[t], Event("dts", outcome))
       IN  /\ fs' = IF outcome \in {"ok", "diagError"}
                    THEN WriteFile(fs, OutDir("dts", locals[t], cwd, ManifestOf(t)), <<"index.d.ts">>)
                    ELSE fs
           /\ IF rejection # "none" /\ Caught(rejection)
              THEN /\ errors' = errors + 1
                   /\ UNCHANGED reports
                   /\ Terminate(t, settled)
              ELSE /\ pc' = [pc EXCEPT ![t] = EnterPc(t, next)]
                   /\ trace' = [trace EXCEPT ![t] = EnterTrace(settled, next)]
                   /\ UNCHANGED <<process, console, queue, late, changes, locals, watcher>>
    /\ UNCHANGED <<config, watchEnd, passed, pure>>

\* the SIGINT handler installed by the constructor
Sigint ==
    /\ alive
    /\ Terminate("signal", <<>>)
    /\ UNCHANGED <<config, watchEnd, passed, fs, console, pure>>

\* the platform delivers a change notification to the subscription, which
\* keeps it until the for-await loop asks for the next one
Change(filename) ==
    /\ alive
    /\ pc["watch"] # "off"
    /\ changes < MaxChanges
    /\ changes' = changes + 1
    /\ queue' = Append(queue, [file |-> filename, inflight |-> observed /\ InFlight("watch")])
    /\ UNCHANGED <<process, config, watchEnd, chains, passed, fs, late, console, pure>>

\* one iteration of the for-await loop of watchFiles
WatchNext ==
    /\ alive
    /\ pc["watch"] = "waiting"
    /\ queue # <<>>
    /\ LET change == Head(queue)
           ignored == Ignored(change.file, watcher.output)
       IN  /\ late' = IF change.inflight
                       THEN Append(late, [file |-> change.file, rebuilt |-> ~ignored])
                       ELSE late
           /\ IF ignored
              THEN UNCHANGED <<pc, trace, locals, passed>>
              ELSE /\ pc' = [pc EXCEPT !["watch"] = FirstStep]
                   /\ trace' = [trace EXCEPT !["watch"] = EnterTrace(<<>>, FirstStep)]
                   /\ locals' = [locals EXCEPT !["watch"] = BuildLocals(cwd, manifest)]
                   /\ passed' = EnterPassed("watch", FirstStep, BuildLocals(cwd, manifest),
                                            manifest, external)
    /\ queue' = Tail(queue)
    /\ UNCHANGED <<watcher, process, config, watchEnd, fs, console, changes, pure>>

\* the subscription stream throws: the catch clause of watchFiles returns or
\* rethrows.  A rethrown fault rejects the promise of the watchFiles() call,
\* which from() did not await; the runtime then either lets the process go on
\* or ends it with status 1 (`exits`), without terminate() having run
WatchFault(fault, exits) ==
    /\ alive
    /\ pc["watch"] = "waiting"
    /\ fault = AbortError => aborted
    /\ watchEnd' = [fault |-> fault, raised |-> ~Swallowed(fault)]
    /\ IF ~Swallowed(fault) /\ exits
       THEN /\ alive' = FALSE
            /\ exitCode' = 1
            /\ pc' = [t \in Threads |-> "exited"]
            /\ trace' = [t \in Threads |-> <<>>]
            /\ locals' = [t \in Threads |-> NoLocals]
            /\ late' = <<>>
       ELSE /\ pc' = [pc EXCEPT !["watch"] = "off"]
            /\ UNCHANGED <<alive, exitCode, trace, locals, late>>
    /\ watcher' = NoWatch
    /\ queue' = <<>>
    /\ changes' = 0
    /\ UNCHANGED <<aborted, config, passed, fs, console, pure>>

Next ==
    \/ \E tgt \in Targets : For(tgt)
    \/ \E list \in PluginLists : Use(list)
    \/ \E m \in Manifests : From(m)
    \/ \E t \in Threads : ExistsSettle(t)
    \/ \E t \in Threads : RmSettle(t)
    \/ \E t \in Threads, logs \in BuildLogs : BundleSettle(t, logs)
    \/ \E t \in Threads, outcome \in DtsOutcomes : DtsSettle(t, outcome)
    \/ Sigint
    \/ \E filename \in Filenames : Change(filename)
    \/ WatchNext
    \/ \E fault \in Faults, exits \in BOOLEAN : WatchFault(fault, exits)

Init == Start(FALSE)

Spec == Init /\ [][Next]_vars

\* a Builder constructed with watch off whose from() is called twice
InitSecond == Start(FALSE) /\ ~watch

NextSecond ==
    \/ \E tgt \in Targets : For(tgt)
    \/ \E list \in PluginLists : Use(list)
    \/ \E m \in Manifests : From(m)
    \/ \E m \in Manifests : FromAgain(m)
    \/ \E t \in Threads : ExistsSettle(t)
    \/ \E t \in Threads : RmSettle(t)
    \/ \E t \in Threads, logs \in BuildLogs : BundleSettle(t, logs)
    \/ \E t \in Threads, outcome \in DtsOutcomes : DtsSettle(t, outcome)
    \/ Sigint

SpecSecond == InitSecond /\ [][NextSecond]_vars

\* the same program, with the late arrivals recorded
InitObserved == Start(TRUE)

SpecObserved == InitObserved /\ [][Next]_vars

\* ------------------------------------------------------------------------
\* basepath on its own: the inputs are drawn by Init, one step applies it
\* ------------------------------------------------------------------------
\* absolute directories: every chain of one or two of the names a, b, and the
\* three output directories of the README layout under /p
PathPool ==
    {<<Sep, x>> : x \in {"a", "b"}}
    \cup {<<Sep, x, Sep, y>> : x \in {"a", "b"}, y \in {"a", "b"}}
    \cup {<<Sep, "p", Sep, "dist", Sep, x>> : x \in {"cjs", "esm", "types"}}

PathLists == UNION {[1..n -> PathPool] : n \in 1..MaxPaths}

\* the orders a list of n elements can be put in
Orders(n) == {f \in [1..n -> 1..n] : \A i, j \in 1..n : i # j => f[i] # f[j]}

Reorderings(xs) == {[i \in 1..Len(xs) |-> xs[f[i]]] : f \in Orders(Len(xs))}

InitBasepath ==
    /\ observed = FALSE
    /\ alive = TRUE
    /\ aborted = FALSE
    /\ exitCode = 0
    /\ target = "bun"
    /\ watch = TRUE
    /\ clean = TRUE
    /\ verbose = FALSE
    /\ buildConfig = NoOverlay
    /\ plugins = <<>>
    /\ external = <<>>
    /\ passed = [t \in Threads |-> NoOverlay]
    /\ cwd = <<Sep, "p">>
    /\ manifest = NoManifest
    /\ manifest2 = NoManifest
    /\ pc = [t \in Threads |-> IF t = "main" THEN "config" ELSE "off"]
    /\ trace = [t \in Threads |-> <<>>]
    /\ locals = [t \in Threads |-> NoLocals]
    /\ watcher = NoWatch
    /\ fs = {}
    /\ queue = <<>>
    /\ late = <<>>
    /\ errors = 0
    /\ reports = {}
    /\ watchEnd = [fault |-> NoFault, raised |-> FALSE]
    /\ changes = 0
    /\ paths \in PathLists
    /\ shuffled \in Reorderings(paths)
    /\ applied = FALSE
    /\ res = <<>>
    /\ res2 = <<>>

ApplyBasepath ==
    /\ ~applied
    /\ applied' = TRUE
    /\ res' = basepath(paths)
    /\ res2' = basepath(shuffled)
    /\ UNCHANGED <<process, config, watchEnd, chains, passed, fs, queue, late, console, changes, paths,
                   shuffled>>

NextBasepath == ApplyBasepath

SpecBasepath == InitBasepath /\ [][NextBasepath]_vars

\* ------------------------------------------------------------------------
\* Reference notions the properties are stated with
\* ------------------------------------------------------------------------
RECURSIVE CommonPrefix(_, _)
CommonPrefix(a, b) ==
    IF a = <<>> \/ b = <<>> \/ Head(a) # Head(b) THEN <<>>
    ELSE <<Head(a)>> \o CommonPrefix(Tail(a), Tail(b))

RECURSIVE CommonChain(_)
\* the directory chain of the deepest common ancestor of absolute paths
CommonChain(ps) ==
    IF Len(ps) = 1 THEN Chain(ps[1])
    ELSE CommonPrefix(CommonChain(SubSeq(ps, 1, Len(ps) - 1)), Chain(ps[Len(ps)]))

\* the output root of a manifest: the deepest directory that holds its cjs,
\* esm and declaration outputs
OutputRoot(m) ==
    CommonChain(<<Dirname(Join(<<cwd, m.main>>)), Dirname(Join(<<cwd, m.module>>)),
                  Dirname(Join(<<cwd, m.types>>))>>)

\* a changed file, named relative to the watched directory, lies under the output root
UnderOutputRoot(filename) ==
    IsPrefix(OutputRoot(manifest), Chain(Join(<<cwd, Dirname(manifest.entry), filename>>)))

Has(tr, step, ev) == \E k \in 1..Len(tr) : tr[k] = Event(step, ev)
Started(tr, step) == Has(tr, step, "start")
Settled(tr, step) == \E k \in 1..Len(tr) : tr[k].step = step /\ tr[k].ev # "start"
Count(tr, step, Test(_)) == Cardinality({k \in 1..Len(tr) : tr[k].step = step /\ Test(tr[k].ev)})
IsStart(ev) == ev = "start"
IsSettle(ev) == ev # "start"

\* in tr, `second` does not start before `first` has settled
After(tr, first, second) ==
    \A k \in 1..Len(tr) :
        tr[k] = Event(second, "start") =>
            \E j \in 1..(k - 1) : tr[j].step = first /\ tr[j].ev # "start"

\* ------------------------------------------------------------------------
\* Properties
\* ------------------------------------------------------------------------

\* C1: with watch mode on, no two build cycles of one Builder overlap: the
\* watcher's build is never in flight while the build started by from() is.
NoOverlappingBuilds == ~(InFlight("main") /\ InFlight("watch"))

\* C2: a declaration-emission failure (an error diagnostic, or emission
\* skipped) is always fatal: it is logged, the token is signaled and the
\* process exits with status 1.
DtsFailureIsFatal ==
    \A t \in Threads :
        (Has(trace[t], "dts", "diagError") \/ Has(trace[t], "dts", "emitSkipped"))
            => ~alive /\ aborted /\ exitCode = 1 /\ errors > 0

\* C3: with clean on and stale files in the output root, one successful build
\* cycle leaves no stale file under the output root.
CleanRemovesStale ==
    (/\ clean
     /\ pc["main"] = "done"
     /\ \A step \in {"esm", "cjs", "dts"} : Has(trace["main"], step, "ok"))
        => \A f \in fs : f.stale => ~IsPrefix(OutputRoot(manifest), Chain(f.dir))

\* C4: after an error-severity diagnostic of the esm emission, cjs, iife and
\* declaration emission of that cycle never start, the token is signaled and
\* the process has exited with status 1.
EsmErrorStopsCycle ==
    \A t \in Threads :
        Has(trace[t], "esm", "error")
            => /\ ~alive /\ aborted /\ exitCode = 1
               /\ \A step \in {"cjs", "iife", "dts"} : ~Started(trace[t], step)

EsmErrorSeen ==
    \E t \in Threads : Has(trace[t], "esm", "error") /\ exitCode = 1 /\ errors = 1

\* a step of the for-await loop that takes the next notification
ConsumesNotification == queue # <<>> /\ queue' = Tail(queue) /\ alive'

\* C5: the watcher loop starts a rebuild for a consumed notification exactly
\* when the changed path does not lie under the output root (a containment
\* test on paths, not a comparison of name prefixes).
FilterIsContainment ==
    [][ConsumesNotification
          => (InFlight("watch")' <=> ~UnderOutputRoot(Head(queue).file))]_vars

\* C6: basepath returns the deepest common ancestor directory of its inputs.
BasepathIsCommonAncestor ==
    applied => IsAbsolute(res) /\ Chain(res) = CommonChain(paths)

\* C7: basepath gives the same result for every permutation of its input list.
BasepathOrderIndependent == applied => res = res2

\* C8: within one build cycle every emission runs at most once, esm settles
\* before cjs starts, cjs before iife, and the declaration emission starts
\* last, after every bundle emission of the cycle has settled.
StepsSequential ==
    \A t \in Threads :
        LET tr == trace[t]
        IN  /\ \A step \in Emissions :
                 Count(tr, step, IsStart) <= 1 /\ Count(tr, step, IsSettle) <= 1
            /\ \A k \in 1..Len(tr) :
                 tr[k].ev = "start" => (k = 1 \/ tr[k - 1].ev # "start")
            /\ After(tr, "esm", "cjs")
            /\ After(tr, "cjs", "iife")
            /\ After(tr, "esm", "dts") /\ After(tr, "cjs", "dts")
            /\ Started(tr, "iife") => After(tr, "iife", "dts")
            /\ \A k \in 1..Len(tr) :
                 tr[k] = Event("dts", "start") => \A j \in k..Len(tr) : tr[j].step = "dts"

FullCycleSeen ==
    \E t \in Threads : Has(trace[t], "iife", "ok") /\ Has(trace[t], "dts", "ok")

LateOutside(e) == ~UnderOutputRoot(e.file)
LateRebuilt(e) == ~UnderOutputRoot(e.file) /\ e.rebuilt

\* C9: two notifications outside the output root that arrived while a
\* watcher rebuild was in flight get two rebuilds of their own, none dropped.
TwoLateTwoRebuilds ==
    Len(SelectSeq(late, LateOutside)) = 2 => Len(SelectSeq(late, LateRebuilt)) = 2

\* C10: a cycle emits iife exactly when the manifest has a cdn path and the
\* target is browser; target browser without cdn skips it and goes on to the
\* declarations without logging an error.
IifeIffCdnAndBrowser ==
    \A t \in Threads :
        LET tr == trace[t]
            wanted == ManifestOf(t).cdn # Undefined /\ target = "browser"
        IN  /\ Started(tr, "iife") => wanted
            /\ Has(tr, "cjs", "ok") => (Started(tr, "iife") <=> wanted)
            /\ (Has(tr, "cjs", "ok") /\ ~wanted) => (Started(tr, "dts") /\ alive /\ errors = 0)
                                                    \/ Settled(tr, "dts")

IifeSeen ==
    /\ \E t \in Threads : Has(trace[t], "iife", "ok") /\ target = "browser"
    /\ manifest.cdn = CdnOut

\* C11: the terminated state is absorbing: the step in which terminate() runs
\* signals the token, exits the process with status 1 and leaves no build
\* cycle in flight, and once terminate() has run no step is taken at all (no
\* cycle starts, no emission of an in-flight cycle starts or settles).
TerminatedIsAbsorbing ==
    [][/\ ~aborted
       /\ aborted' => /\ exitCode' = 1
                      /\ ~alive'
                      /\ \A t \in Threads : ~InFlight(t)']_vars

TerminatedByWatcherCycle ==
    /\ aborted /\ exitCode = 1 /\ ~alive
    /\ Has(trace["watch"], "cjs", "error")

\* the name segments every one of the paths has
SharedSegments(ps) ==
    {seg \in {Chain(ps[1])[k] : k \in 1..Len(Chain(ps[1]))} :
        \A i \in 1..Len(ps) : SetHas(Chain(ps[i]), seg)}

\* C12: basepath of a single absolute path is that path, and basepath of
\* absolute paths that share no segment beyond the root is the root directory.
BasepathIdentityAndRoot ==
    applied => /\ Len(paths) = 1 => res = paths[1]
               /\ (Len(paths) > 1 /\ SharedSegments(paths) = {}) => res = <<Sep>>

\* C13: the object given to the bundler carries the Builder's own values for
\* target, external, entrypoints, format, outdir, sourcemap, plugins and
\* throw whatever the buildConfig overlay holds under those keys, and every
\* other key of the overlay is passed through with its value.
CoreOptionsNotOverridable ==
    \A t \in Threads :
        pc[t] \in Bundles =>
            LET o == passed[t]
            IN  /\ DOMAIN o = CoreKeys \cup DOMAIN buildConfig
                /\ o.target = target
                /\ o.external = external
                /\ o.entrypoints = <<locals[t].entry>>
                /\ o.format = pc[t]
                /\ o.outdir = OutDir(pc[t], locals[t], cwd, ManifestOf(t))
                /\ o.sourcemap = "external"
                /\ o.plugins = plugins
                /\ o.throw = FALSE
                /\ \A key \in DOMAIN buildConfig \ CoreKeys : o[key] = buildConfig[key]

OverlaidKeysSeen ==
    \E t \in Threads :
        /\ pc[t] = "iife"
        /\ buildConfig = FullOverlay
        /\ passed[t].format = "iife"
        /\ passed[t].plugins = <<"plugin">>
        /\ passed[t].minify

\* the directory the subscription of watchFiles watches
WatchedChain == Chain(Resolve(watcher.base))

\* the name a change of file f is reported with: relative to the watched directory
ReportedName(f) ==
    LET full == Append(Chain(f.dir), f.name)
    IN  JoinWith(SubSeq(full, Len(WatchedChain) + 1, Len(full)))

\* C14: the watcher does not react to its own build output: every file a
\* build cycle has written inside the watched directory is reported under a
\* name that the watcher's filter discards (so no rebuild triggers another).
BuildOutputIsFiltered ==
    pc["watch"] \in {"waiting", "exists", "rm"} \cup Emissions =>
        \A f \in fs :
            (~f.stale /\ IsPrefix(WatchedChain, Chain(f.dir)))
                => Ignored(ReportedName(f), watcher.output)

\* C18: the path given to the recursive removal is never the directory of the
\* entry file nor an ancestor of it.
CleanSparesEntry ==
    \A t \in Threads :
        pc[t] = "rm" =>
            ~IsPrefix(Chain(Resolve(locals[t].base)), Chain(Dirname(locals[t].entry)))

\* C15: a bundler message of non-error level is never fatal (reportOutput
\* does not call terminate for it, verbose or not, and the loop over the
\* messages goes on); it is logged when verbose is on and dropped when it is off.
NonErrorReportGatedNeverFatal ==
    \A r \in reports :
        r.level # "error" =>
            /\ ~r.terminate
            /\ r.shown = (IF verbose THEN "message" ELSE "nothing")

\* C16: a signaled token never makes watchFiles raise (the abort fault is
\* swallowed and the loop is over once the token is signaled), and every other
\* fault of the subscription stream is rethrown by watchFiles.
AbortSwallowedOthersRethrown ==
    /\ aborted => /\ pc["watch"] \in {"off", "exited"}
                  /\ ~(watchEnd.fault = AbortError /\ watchEnd.raised)
    /\ watchEnd.fault \notin {NoFault, AbortError} => watchEnd.raised

StreamFaultRethrown ==
    /\ watchEnd.fault.name = "ENOENT" /\ watchEnd.raised
    /\ alive /\ InFlight("main")

\* the directory the watcher's filter stands for: its `output`, read like the
\* reported names are, from the watched directory
FilteredChain == Chain(Join(<<cwd, watcher.base, watcher.output>>))

\* C17: the output root the watcher filters on is the directory that build
\* computes as its output root and cleans.
WatchRootIsBuildRoot ==
    pc["watch"] \in {"waiting", "exists", "rm"} \cup Emissions =>
        \A t \in Threads :
            locals[t] # NoLocals => Chain(Resolve(locals[t].base)) = FilteredChain

\* C19: every bundle emission is given the external list of the manifest that
\* started its cycle, also when from() was called a second time with another
\* manifest while the earlier cycle is in flight.
ExternalOfOwnManifest ==
    \A t \in Threads :
        pc[t] \in Bundles => passed[t].external = Externals(ManifestOf(t))

====
